---- MODULE Spec2Model ----
(***************************************************************************)
(* Model of the SWAPI client of src/swapi.py: get_swapi_data with its      *)
(* input validation, cache key, URL construction, classification of the   *)
(* outcome of requests.get, response processing and the module-level      *)
(* dictionary _cache (Spec, SpecResolve, SpecKey); and of the SSDP         *)
(* discovery of src/getips.py, discover_roku_devices (SpecDiscover,        *)
(* SpecDiscoverFair).                                                      *)
(*                                                                         *)
(* Python values are encoded so that every value of one kind has one      *)
(* shape: Optional[x] is a sequence of length 0 (None) or 1, a parsed     *)
(* JSON value is a record with the fields of JSON below, a dict is a      *)
(* function whose DOMAIN is its key set.                                   *)
(***************************************************************************)
EXTENDS Integers, Sequences, FiniteSets, TLC

\* _cache : the module-level dict of swapi.py, cache key -> cached result
\* last   : what the most recent call of get_swapi_data did (see Returned, Raised)
\* prev   : summary of the call before it (see Summary)
\* ncalls : number of calls made so far
VARIABLES _cache, last, prev, ncalls

\* probe : two requests and the cache keys and URLs built for them (see SpecKey)
\* twin  : the same call as last, made from the same cache with the other
\*         value of resolve_urls, and the cache it left (see SpecResolve)
VARIABLES probe, twin

\* One run of discover_roku_devices of src/getips.py (see SpecDiscover):
\* pc           : the statement the run is at
\* sock         : the UDP socket, with what was set on it and sent through it
\* ip_addresses : the local list of getips.py line 39
\* received     : the datagrams recvfrom has returned so far, in order
\* ended        : how the run ended: value returned or exception raised
VARIABLES pc, sock, ip_addresses, received, ended

swapi_vars == <<_cache, last, prev, ncalls>>
pure_vars == <<probe, twin>>
discover_vars == <<pc, sock, ip_addresses, received, ended>>

\* weather : one run of main of src/weather.py (see SpecWeather)
\* github  : one call of create_github_repo of src/github/create_repo.py
\*           (see SpecGithub)
VARIABLES weather, github

\* The objects get_swapi_data hands out (see SpecAlias):
\* heap    : the content of every list or dict a call has returned, by identity
\* refs    : the object each entry of _cache refers to
\* handed  : the objects the caller holds
\* origin  : for each entry of _cache, the URL of the GET that filled it and
\*           the value that GET produced (see SpecOrigin, SpecAlias)
VARIABLES heap, refs, handed, origin

\* threads : calls of get_swapi_data in progress, one per thread, and
\* stores  : the writes made to _cache so far, in order (see SpecThreads)
VARIABLES threads, stores

script_vars == <<weather, github>>
alias_vars == <<heap, refs, handed>>
thread_vars == <<threads, stores>>
extra_vars == <<script_vars, alias_vars, origin, thread_vars>>
vars == <<_cache, last, prev, ncalls, probe, twin, pc, sock, ip_addresses, received, ended,
          weather, github, heap, refs, handed, origin, threads, stores>>

(***************************************************************************)
(* Bounds of the model: the number of calls in a run, the largest          *)
(* resource_id and the largest page passed (the smallest of each is -1).   *)
(***************************************************************************)
MaxCalls == 2
MaxId == 1
MaxPage == 1

(***************************************************************************)
(* Optional values.                                                        *)
(***************************************************************************)
None == <<>>
Some(x) == <<x>>
IsNone(o) == Len(o) = 0
Val(o) == o[1]

\* Python truthiness of an Optional[int] and of an Optional[str], as used by
\* "if resource_id:", "if search:", "if page:".
TruthyInt(o) == ~IsNone(o) /\ Val(o) # 0
TruthyStr(o) == ~IsNone(o) /\ Val(o) # ""

(***************************************************************************)
(* class SWAPIResource(Enum): the values, in declaration order.            *)
(***************************************************************************)
SWAPIResource == <<"people", "planets", "starships", "vehicles", "species", "films">>

\* The resource type the calls of the model are made for.
Kinds == {SWAPIResource[i] : i \in {1}}

\* Search terms callers pass; the empty string is a legal str.
SearchTerms == {"Luke", ""}

Ids == {None} \cup {Some(i) : i \in (0 - 1)..MaxId}
Pages == {None} \cup {Some(i) : i \in (0 - 1)..MaxPage}
Searches == {None} \cup {Some(t) : t \in SearchTerms}

\* resolve_urls is passed with its default.
ResolveFlags == {FALSE}

Requests ==
    [resource_type : Kinds, resource_id : Ids, search : Searches, page : Pages,
     resolve_urls : ResolveFlags, use_cache : BOOLEAN]

(***************************************************************************)
(* Parsed JSON values.  type "object" is a dict whose key set is keys,     *)
(* with name and results meaningful when the key is present; type "array"  *)
(* is a list whose elements are items; type "null" is None.                *)
(***************************************************************************)
Obj(keys, name, results) ==
    [type |-> "object", keys |-> keys, name |-> name, results |-> results, items |-> <<>>]
Arr(items) ==
    [type |-> "array", keys |-> {}, name |-> "", results |-> <<>>, items |-> items]
Null == [type |-> "null", keys |-> {}, name |-> "", results |-> <<>>, items |-> <<>>]

Luke == Obj({"name"}, "Luke", <<>>)
Leia == Obj({"name"}, "Leia", <<>>)

\* Bodies a server can send that parse as JSON.
Bodies ==
    << Luke,
       Obj({"count", "results"}, "", <<Luke, Leia>>),
       Arr(<<Luke>>) >>

(***************************************************************************)
(* The network as get_swapi_data sees it: what requests.get(url, timeout)  *)
(* does for one GET.  raised is the class of the exception requests.get    *)
(* raises ("" when it returns a response), status the response's           *)
(* status_code, detail the text of the exception (str(e)), parses whether  *)
(* response.json() succeeds, body the value it then returns.               *)
(***************************************************************************)
Net(raised, status, detail, parses, body) ==
    [raised |-> raised, status |-> status, detail |-> detail, parses |-> parses, body |-> body]

NoNet == Net("", 0, "", FALSE, Null)

\* The answers of the model, failures first.
NetOutcomes ==
    << Net("ConnectTimeout", 0, "timed out", FALSE, Null),
       Net("ConnectionError", 0, "Connection failed", FALSE, Null),
       Net("", 404, "404 Client Error", FALSE, Null),
       Net("", 500, "500 Server Error", FALSE, Null),
       Net("", 200, "Invalid JSON", FALSE, Null),
       Net("", 200, "", TRUE, Bodies[1]),
       Net("", 200, "", TRUE, Bodies[2]),
       Net("", 200, "", TRUE, Bodies[3]) >>

\* The classes of requests.exceptions each exception class is an instance of.
Bases(cls) ==
    CASE cls = "Timeout" -> {"Timeout", "RequestException"}
      [] cls = "ConnectTimeout" -> {"ConnectTimeout", "ConnectionError", "Timeout", "RequestException"}
      [] cls = "ConnectionError" -> {"ConnectionError", "RequestException"}
      [] cls = "HTTPError" -> {"HTTPError", "RequestException"}
      [] OTHER -> {cls}

\* response.raise_for_status(): HTTPError for a 4xx or 5xx status.
raise_for_status(status) == IF status >= 400 /\ status < 600 THEN "HTTPError" ELSE ""

(***************************************************************************)
(* What a call did, as its caller and the transport observe it.            *)
(* outcome is "return" or "raise"; exc and msg the exception's class and   *)
(* text; value the returned value; urls the GETs issued, in order; hit     *)
(* whether the value came from _cache; net the outcome of the GET.         *)
(***************************************************************************)
Returned(req, value, urls, hit, net) ==
    [req |-> req, outcome |-> "return", exc |-> "", msg |-> "", value |-> value,
     urls |-> urls, hit |-> hit, net |-> net]
Raised(req, exc, msg, urls, net) ==
    [req |-> req, outcome |-> "raise", exc |-> exc, msg |-> msg, value |-> Null,
     urls |-> urls, hit |-> FALSE, net |-> net]

NoRequest ==
    [resource_type |-> "", resource_id |-> None, search |-> None, page |-> None,
     resolve_urls |-> FALSE, use_cache |-> FALSE]
NoCall ==
    [req |-> NoRequest, outcome |-> "none", exc |-> "", msg |-> "", value |-> Null,
     urls |-> <<>>, hit |-> FALSE, net |-> NoNet]

(***************************************************************************)
(* _validate_inputs: the text of the ValueError it raises, "" when the     *)
(* parameters pass.                                                        *)
(***************************************************************************)
_validate_inputs_IdStrict(resource_id, search, page) ==
    IF ~IsNone(resource_id) /\ Val(resource_id) < 0 THEN "resource_id must be positive"
    ELSE IF ~IsNone(page) /\ Val(page) <= 0 THEN "page must be positive"
    ELSE IF ~IsNone(resource_id) /\ ~IsNone(search)
         THEN "Cannot specify both resource_id and search"
    ELSE ""

_validate_inputs_PageStrict(resource_id, search, page) ==
    IF ~IsNone(resource_id) /\ Val(resource_id) <= 0 THEN "resource_id must be positive"
    ELSE IF ~IsNone(page) /\ Val(page) < 0 THEN "page must be positive"
    ELSE IF ~IsNone(resource_id) /\ ~IsNone(search)
         THEN "Cannot specify both resource_id and search"
    ELSE ""

_validate_inputs_NoConflict(resource_id, search, page) ==
    IF ~IsNone(resource_id) /\ Val(resource_id) <= 0 THEN "resource_id must be positive"
    ELSE IF ~IsNone(page) /\ Val(page) <= 0 THEN "page must be positive"
    ELSE ""

_validate_inputs_ConflictFirst(resource_id, search, page) ==
    IF ~IsNone(resource_id) /\ ~IsNone(search)
    THEN "Cannot specify both resource_id and search"
    ELSE IF ~IsNone(resource_id) /\ Val(resource_id) <= 0 THEN "resource_id must be positive"
    ELSE IF ~IsNone(page) /\ Val(page) <= 0 THEN "page must be positive"
    ELSE ""

_validate_inputs(resource_id, search, page) ==
    IF ~IsNone(resource_id) /\ Val(resource_id) <= 0 THEN "resource_id must be positive"
    ELSE IF ~IsNone(page) /\ Val(page) <= 0 THEN "page must be positive"
    ELSE IF ~IsNone(resource_id) /\ ~IsNone(search)
         THEN "Cannot specify both resource_id and search"
    ELSE ""

\* "sep".join(parts)
RECURSIVE Join(_, _)
Join(sep, parts) ==
    IF Len(parts) = 0 THEN ""
    ELSE IF Len(parts) = 1 THEN parts[1]
    ELSE parts[1] \o sep \o Join(sep, Tail(parts))

_build_cache_key(resource_type, resource_id, search, page) ==
    LET p1 == <<resource_type>>
        p2 == IF TruthyInt(resource_id) THEN Append(p1, "id:" \o ToString(Val(resource_id))) ELSE p1
        p3 == IF TruthyStr(search) THEN Append(p2, "search:" \o Val(search)) ELSE p2
        p4 == IF TruthyInt(page) THEN Append(p3, "page:" \o ToString(Val(page))) ELSE p3
    IN  Join("|", p4)

base_url == "https://swapi.dev/api"

_build_url_PageFirst(resource_type, resource_id, search, page) ==
    IF TruthyInt(resource_id)
    THEN base_url \o "/" \o resource_type \o "/" \o ToString(Val(resource_id)) \o "/"
    ELSE LET url == base_url \o "/" \o resource_type \o "/"
             q1 == IF TruthyInt(page) THEN <<"page=" \o ToString(Val(page))>> ELSE <<>>
             params == IF TruthyStr(search) THEN Append(q1, "search=" \o Val(search)) ELSE q1
         IN  IF Len(params) > 0 THEN url \o "?" \o Join("&", params) ELSE url

_build_url(resource_type, resource_id, search, page) ==
    IF TruthyInt(resource_id)
    THEN base_url \o "/" \o resource_type \o "/" \o ToString(Val(resource_id)) \o "/"
    ELSE LET url == base_url \o "/" \o resource_type \o "/"
             q1 == IF TruthyStr(search) THEN <<"search=" \o Val(search)>> ELSE <<>>
             params == IF TruthyInt(page) THEN Append(q1, "page=" \o ToString(Val(page))) ELSE q1
         IN  IF Len(params) > 0 THEN url \o "?" \o Join("&", params) ELSE url

(***************************************************************************)
(* The try/except around requests.get and raise_for_status.  The except   *)
(* clauses are tried in source order; the first one the raised exception   *)
(* is an instance of handles it.  The result is the text of the SWAPIError *)
(* raised, or the class of an exception no clause handles, or "" twice.    *)
(***************************************************************************)
ExceptClauses_BroadFirst == <<"RequestException", "Timeout", "HTTPError">>
ExceptClauses == <<"Timeout", "HTTPError", "RequestException">>

Handler(cls) ==
    LET matching == {i \in 1..Len(ExceptClauses) : ExceptClauses[i] \in Bases(cls)}
    IN  IF matching = {} THEN ""
        ELSE ExceptClauses[CHOOSE i \in matching : \A j \in matching : i <= j]

MakeRequest(net) ==
    LET cls == IF net.raised # "" THEN net.raised ELSE raise_for_status(net.status)
        h == Handler(cls)
    IN  IF cls = "" THEN [exc |-> "", msg |-> ""]
        ELSE IF h = "Timeout" THEN [exc |-> "SWAPIError", msg |-> "Request timeout"]
        ELSE IF h = "HTTPError"
             THEN IF net.status = 404
                  THEN [exc |-> "SWAPIError", msg |-> "Resource not found"]
                  ELSE [exc |-> "SWAPIError", msg |-> "Server error: " \o net.detail]
        ELSE IF h = "RequestException"
             THEN [exc |-> "SWAPIError", msg |-> "Network error: " \o net.detail]
        ELSE [exc |-> cls, msg |-> net.detail]

\* data = response.json(), a ValueError becoming a SWAPIError.
ParseResponse(net) ==
    IF net.parses THEN [exc |-> "", msg |-> ""]
    ELSE [exc |-> "SWAPIError", msg |-> "Failed to parse response: " \o net.detail]

\* data.get('results', []): dict.get on a dict; any other type has no get.
DictGetResults(data) ==
    IF data.type = "object"
    THEN [exc |-> "", msg |-> "",
          value |-> IF "results" \in data.keys THEN Arr(data.results) ELSE Arr(<<>>)]
    ELSE [exc |-> "AttributeError", msg |-> "object has no attribute 'get'", value |-> Null]

\* "if resource_id: result = data / else: result = data.get('results', [])"
ProcessResponse(resource_id, data) ==
    IF TruthyInt(resource_id) THEN [exc |-> "", msg |-> "", value |-> data]
    ELSE DictGetResults(data)

\* "use_cache and cache_key in _cache"
CacheHit_Never(use_cache, cache_key, cache) == FALSE
CacheHit_IgnoreFlag(use_cache, cache_key, cache) == cache_key \in DOMAIN cache
CacheHit(use_cache, cache_key, cache) == use_cache /\ cache_key \in DOMAIN cache

\* "if use_cache: _cache[cache_key] = result"
StoreResult_Skip(use_cache, cache_key, result, cache) == cache
StoreResult_Always(use_cache, cache_key, result, cache) ==
    [k \in DOMAIN cache \cup {cache_key} |-> IF k = cache_key THEN result ELSE cache[k]]
StoreResult_WhenBypassed(use_cache, cache_key, result, cache) ==
    IF use_cache THEN cache
    ELSE [k \in DOMAIN cache \cup {cache_key} |-> IF k = cache_key THEN result ELSE cache[k]]
StoreResult_KeepFirst(use_cache, cache_key, result, cache) ==
    IF use_cache /\ cache_key \notin DOMAIN cache
    THEN [k \in DOMAIN cache \cup {cache_key} |-> IF k = cache_key THEN result ELSE cache[k]]
    ELSE cache
StoreResult(use_cache, cache_key, result, cache) ==
    IF use_cache
    THEN [k \in DOMAIN cache \cup {cache_key} |-> IF k = cache_key THEN result ELSE cache[k]]
    ELSE cache

\* "response = requests.get(url, timeout=timeout)": the GETs one call issues
\* for the answer `sent` of the try block; there is no loop around it.
Attempts_Retry(url, sent) == IF sent.exc # "" THEN <<url, url>> ELSE <<url>>
Attempts(url, sent) == <<url>>

(***************************************************************************)
(* get_swapi_data up to the GET: validation, cache key, cache check, URL.  *)
(* invalid is the text of the ValueError raised ("" when none), hit        *)
(* whether the call returns the cached entry, url the target of the GET    *)
(* the call goes on to issue.                                              *)
(***************************************************************************)
Prepare(req, cache) ==
    LET invalid == _validate_inputs(req.resource_id, req.search, req.page)
        cache_key == _build_cache_key(req.resource_type, req.resource_id, req.search, req.page)
    IN  IF invalid # ""
        THEN [invalid |-> invalid, cache_key |-> "", hit |-> FALSE, url |-> ""]
        ELSE IF CacheHit(req.use_cache, cache_key, cache)
        THEN [invalid |-> "", cache_key |-> cache_key, hit |-> TRUE, url |-> ""]
        ELSE [invalid |-> "", cache_key |-> cache_key, hit |-> FALSE,
              url |-> _build_url(req.resource_type, req.resource_id, req.search, req.page)]

\* The call issues a GET.
Requests_get(pre) == pre.invalid = "" /\ ~pre.hit

(***************************************************************************)
(* get_swapi_data from there on, against a network that answers the GET    *)
(* with `net`: what the call did, and the cache it leaves.                 *)
(***************************************************************************)
Complete_StoreFailure(req, pre, net, cache) ==
    LET sent == MakeRequest(net)
        parsed == ParseResponse(net)
        result == ProcessResponse(req.resource_id, net.body)
        gets == Attempts(pre.url, sent)
    IN  IF pre.invalid # ""
        THEN [call |-> Raised(req, "ValueError", pre.invalid, <<>>, NoNet), cache |-> cache]
        ELSE IF pre.hit
        THEN [call |-> Returned(req, cache[pre.cache_key], <<>>, TRUE, NoNet), cache |-> cache]
        ELSE IF sent.exc # ""
        THEN [call |-> Raised(req, sent.exc, sent.msg, gets, net),
              cache |-> StoreResult(req.use_cache, pre.cache_key, Null, cache)]
        ELSE IF parsed.exc # ""
        THEN [call |-> Raised(req, parsed.exc, parsed.msg, gets, net), cache |-> cache]
        ELSE IF result.exc # ""
        THEN [call |-> Raised(req, result.exc, result.msg, gets, net), cache |-> cache]
        ELSE [call |-> Returned(req, result.value, gets, FALSE, net),
              cache |-> StoreResult(req.use_cache, pre.cache_key, result.value, cache)]

Complete(req, pre, net, cache) ==
    LET sent == MakeRequest(net)
        parsed == ParseResponse(net)
        result == ProcessResponse(req.resource_id, net.body)
        gets == Attempts(pre.url, sent)
    IN  IF pre.invalid # ""
        THEN [call |-> Raised(req, "ValueError", pre.invalid, <<>>, NoNet), cache |-> cache]
        ELSE IF pre.hit
        THEN [call |-> Returned(req, cache[pre.cache_key], <<>>, TRUE, NoNet), cache |-> cache]
        ELSE IF sent.exc # ""
        THEN [call |-> Raised(req, sent.exc, sent.msg, gets, net), cache |-> cache]
        ELSE IF parsed.exc # ""
        THEN [call |-> Raised(req, parsed.exc, parsed.msg, gets, net), cache |-> cache]
        ELSE IF result.exc # ""
        THEN [call |-> Raised(req, result.exc, result.msg, gets, net), cache |-> cache]
        ELSE [call |-> Returned(req, result.value, gets, FALSE, net),
              cache |-> StoreResult(req.use_cache, pre.cache_key, result.value, cache)]

\* get_swapi_data(resource_type, resource_id, search, page, resolve_urls,
\* use_cache) as a whole.
Fetch_ResolveBypass(req, net, cache) ==
    Complete(req, Prepare([req EXCEPT !.use_cache = req.use_cache /\ ~req.resolve_urls], cache),
             net, cache)
Fetch(req, net, cache) == Complete(req, Prepare(req, cache), net, cache)

(***************************************************************************)
(* History kept for two successive calls: what the call before the last    *)
(* one did (outcome, number of GETs, use_cache) and whether the last call  *)
(* was made with the same (resource_type, resource_id, search, page).      *)
(***************************************************************************)
SameParams(r1, r2) ==
    /\ r1.resource_type = r2.resource_type
    /\ r1.resource_id = r2.resource_id
    /\ r1.search = r2.search
    /\ r1.page = r2.page

Summary(call, req) ==
    [outcome |-> call.outcome, gets |-> Len(call.urls), use_cache |-> call.req.use_cache,
     same |-> call.outcome # "none" /\ SameParams(call.req, req)]

(***************************************************************************)
(* The module after import: _cache = {} and no call made.                  *)
(***************************************************************************)
NoProbe == [state |-> "none", a |-> NoRequest, b |-> NoRequest,
            key_a |-> "", key_b |-> "", url_a |-> "", url_b |-> ""]
NoTwin == [call |-> NoCall, cache |-> [k \in {} |-> Null]]

\* No socket yet, and the socket as socket.socket() returns it.
NoSocket == [state |-> "none", timeout |-> None, reuseaddr |-> FALSE, sent |-> <<>>]
NotEnded == [how |-> "running", exc |-> "", value |-> <<>>]

\* Nothing imported from getips.py has run.
DiscoverIdle ==
    /\ pc = "idle"
    /\ sock = NoSocket
    /\ ip_addresses = <<>>
    /\ received = <<>>
    /\ ended = NotEnded

SwapiInit ==
    /\ _cache = [k \in {} |-> Null]
    /\ last = NoCall
    /\ prev = Summary(NoCall, NoRequest)
    /\ ncalls = 0

NoWeather == [pc |-> "idle", gets |-> <<>>, public_ip |-> None, zipcode |-> None,
              exc |-> "", answers |-> <<>>]
NoGithub == [pc |-> "idle", repo_name |-> "", description |-> "", is_private |-> FALSE,
             calls |-> <<>>, raised |-> None, escaped |-> None, repo |-> None, error |-> None]

\* Nothing of weather.py or create_repo.py has run.
ScriptsIdle ==
    /\ weather = NoWeather
    /\ github = NoGithub

\* No object handed out, no thread started.
ExtraIdle ==
    /\ ScriptsIdle
    /\ heap = <<>>
    /\ refs = [k \in {} |-> 0]
    /\ handed = {}
    /\ origin = [k \in {} |-> [url |-> "", value |-> Null]]
    /\ threads = <<>>
    /\ stores = <<>>

Init ==
    /\ SwapiInit
    /\ probe = NoProbe
    /\ twin = NoTwin
    /\ DiscoverIdle
    /\ ExtraIdle

\* The network answers only a call that issues a GET: the answers it can give
\* to the call, as indexes of NetOutcomes, 0 standing for no answer.
Answers(pre) == IF Requests_get(pre) THEN 1..Len(NetOutcomes) ELSE {0}
Answer(i) == IF i = 0 THEN NoNet ELSE NetOutcomes[i]

\* One call of get_swapi_data by the host program; pre is Prepare(req, _cache).
get_swapi_data(req, pre, net) ==
    /\ ncalls < MaxCalls
    /\ LET r == Complete(req, pre, net, _cache)
       IN  /\ last' = r.call
           /\ _cache' = r.cache
    /\ prev' = Summary(last, req)
    /\ ncalls' = ncalls + 1
    /\ UNCHANGED <<pure_vars, discover_vars, extra_vars>>

Next ==
    \E req \in Requests :
        LET pre == Prepare(req, _cache)
        IN  \E i \in Answers(pre) : get_swapi_data(req, pre, Answer(i))

Spec == Init /\ [][Next]_vars

TypeOK ==
    /\ ncalls \in 0..MaxCalls
    /\ last.outcome \in {"none", "return", "raise"}
    /\ \A k \in DOMAIN _cache : _cache[k].type \in {"object", "array", "null"}

(***************************************************************************)
(* Vocabulary of the properties.                                           *)
(***************************************************************************)
\* The step is a call of get_swapi_data.
Called == ncalls' = ncalls + 1

\* The parameters meet the documented preconditions.
ValidParams(req) ==
    /\ IsNone(req.resource_id) \/ Val(req.resource_id) > 0
    /\ IsNone(req.page) \/ Val(req.page) > 0
    /\ IsNone(req.resource_id) \/ IsNone(req.search)

KeyOf(req) == _build_cache_key(req.resource_type, req.resource_id, req.search, req.page)

\* Two calls ended the same way: same value returned, or same error raised.
SameResult(c1, c2) ==
    /\ c1.outcome = c2.outcome
    /\ c1.exc = c2.exc
    /\ c1.msg = c2.msg
    /\ c1.value = c2.value

\* The step is a call made right after a call with the same parameters,
\* both with use_cache = True.
CachedPair ==
    /\ Called
    /\ last.outcome # "none"
    /\ SameParams(last.req, last'.req)
    /\ last.req.use_cache
    /\ last'.req.use_cache

\* The step is a call made right after another call, both with use_cache = False.
BypassPair ==
    /\ Called
    /\ last.outcome # "none"
    /\ ~last.req.use_cache
    /\ ~last'.req.use_cache

C2_CacheHitNoNetwork ==
    [][(Called /\ last'.req.use_cache /\ ValidParams(last'.req)
            /\ KeyOf(last'.req) \in DOMAIN _cache) =>
        /\ last'.outcome = "return"
        /\ last'.value = _cache[KeyOf(last'.req)]
        /\ last'.urls = <<>>]_vars

C2_Witness ==
    /\ last.outcome = "return" /\ last.hit /\ last.req.use_cache
    /\ last.urls = <<>>
    /\ KeyOf(last.req) \in DOMAIN _cache
    /\ last.value = _cache[KeyOf(last.req)]

\* C3 (as stated): two successive calls with use_cache = False issue exactly
\* two GETs, one each.
C3_BypassAlwaysTwoGets ==
    [][BypassPair => (Len(last.urls) = 1 /\ Len(last'.urls) = 1)]_vars

\* C3 (amended): two successive calls with use_cache = False whose parameters
\* pass validation issue exactly two GETs, one each, whether or not the
\* parameters are identical; and a call with use_cache = False and valid
\* parameters issues its GET also when the cache holds an entry under its key.
C3_BypassTwoGetsWhenValid ==
    [][/\ (BypassPair /\ ValidParams(last.req) /\ ValidParams(last'.req)) =>
            (Len(last.urls) = 1 /\ Len(last'.urls) = 1)
       /\ (Called /\ ~last'.req.use_cache /\ ValidParams(last'.req)
                /\ KeyOf(last'.req) \in DOMAIN _cache) =>
            Len(last'.urls) = 1]_vars

\* Two calls with identical parameters and use_cache = False each issued a GET.
C3_Witness ==
    /\ prev.outcome # "none" /\ ~prev.use_cache /\ prev.same /\ prev.gets = 1
    /\ ~last.req.use_cache /\ Len(last.urls) = 1

\* C4: a call whose resource_id is present and <= 0 raises ValueError and
\* issues no GET, whatever the other parameters and the cache.
C4_NonPositiveIdRejected ==
    (last.outcome # "none" /\ ~IsNone(last.req.resource_id) /\ Val(last.req.resource_id) <= 0) =>
        /\ last.outcome = "raise"
        /\ last.exc = "ValueError"
        /\ last.urls = <<>>

\* resource_id = 0 was rejected with use_cache = True on a cache that is not empty.
C4_Witness ==
    /\ last.req.resource_id = Some(0)
    /\ last.req.use_cache
    /\ last.exc = "ValueError" /\ last.urls = <<>>
    /\ DOMAIN _cache # {}

\* C5: a call with both resource_id and search present raises ValueError and
\* issues no GET.
C5_IdWithSearchRejected ==
    (last.outcome # "none" /\ ~IsNone(last.req.resource_id) /\ ~IsNone(last.req.search)) =>
        /\ last.outcome = "raise"
        /\ last.exc = "ValueError"
        /\ last.urls = <<>>

\* A positive resource_id given together with a search term was rejected for
\* the conflict alone.
C5_Witness ==
    /\ ~IsNone(last.req.resource_id) /\ Val(last.req.resource_id) > 0
    /\ ~IsNone(last.req.search)
    /\ IsNone(last.req.page)
    /\ last.exc = "ValueError"
    /\ last.msg = "Cannot specify both resource_id and search"
    /\ last.urls = <<>>

\* C6 (as stated): a call whose page is present and <= 0 raises the ValueError
\* "page must be positive" and issues no GET.
C6_PageMessageAlways ==
    (last.outcome # "none" /\ ~IsNone(last.req.page) /\ Val(last.req.page) <= 0) =>
        /\ last.outcome = "raise"
        /\ last.exc = "ValueError"
        /\ last.msg = "page must be positive"
        /\ last.urls = <<>>

\* C6 (amended): a call whose page is present and <= 0 raises ValueError and
\* issues no GET; the text is "page must be positive" unless resource_id is
\* present and <= 0, and then it is "resource_id must be positive".
C6_NonPositivePageRejected ==
    (last.outcome # "none" /\ ~IsNone(last.req.page) /\ Val(last.req.page) <= 0) =>
        /\ last.outcome = "raise"
        /\ last.exc = "ValueError"
        /\ last.urls = <<>>
        /\ last.msg = IF ~IsNone(last.req.resource_id) /\ Val(last.req.resource_id) <= 0
                      THEN "resource_id must be positive"
                      ELSE "page must be positive"

\* page = 0 on a search was rejected with the page message.
C6_Witness ==
    /\ last.req.page = Some(0)
    /\ IsNone(last.req.resource_id)
    /\ ~IsNone(last.req.search)
    /\ last.exc = "ValueError" /\ last.msg = "page must be positive"
    /\ last.urls = <<>>

\* C7: a call that fails once its GET is issued fails with SWAPIError.
C7_OnlySWAPIErrorAfterGet ==
    (last.outcome = "raise" /\ last.urls # <<>>) => last.exc = "SWAPIError"

\* A transport timeout: an exception that is a requests Timeout.
IsTimeout(net) == net.raised # "" /\ "Timeout" \in Bases(net.raised)
IsHTTPErrorStatus(net) == net.raised = "" /\ net.status >= 400
IsOtherTransportFailure(net) == net.raised # "" /\ "Timeout" \notin Bases(net.raised)
IsParseFailure(net) == net.raised = "" /\ net.status < 400 /\ ~net.parses

\* C8: a call whose GET fails raises SWAPIError with the message of its
\* outcome: "Request timeout" for a timeout, "Resource not found" for 404,
\* "Server error: <detail>" for another error status, "Network error:
\* <detail>" for another transport failure, "Failed to parse response:
\* <detail>" for a body that does not parse.
C8_FailureClassification ==
    (last.urls # <<>> /\ (last.net.raised # "" \/ last.net.status >= 400 \/ ~last.net.parses)) =>
        /\ last.outcome = "raise"
        /\ last.exc = "SWAPIError"
        /\ last.msg =
             IF IsTimeout(last.net) THEN "Request timeout"
             ELSE IF IsOtherTransportFailure(last.net) THEN "Network error: " \o last.net.detail
             ELSE IF IsHTTPErrorStatus(last.net) /\ last.net.status = 404 THEN "Resource not found"
             ELSE IF IsHTTPErrorStatus(last.net) THEN "Server error: " \o last.net.detail
             ELSE "Failed to parse response: " \o last.net.detail

\* A connect timeout, which is both a ConnectionError and a Timeout, was
\* reported as a timeout.
C8_Witness ==
    /\ last.urls # <<>>
    /\ last.net.raised = "ConnectTimeout"
    /\ last.exc = "SWAPIError"
    /\ last.msg = "Request timeout"

\* The GET of the last call succeeded: a response with no error status whose
\* body parsed.
GetSucceeded(call) ==
    /\ call.urls # <<>>
    /\ call.net.raised = "" /\ call.net.status < 400 /\ call.net.parses

\* C9: after a successful GET the call returns the parsed body when
\* resource_id is set, and otherwise the body's 'results', or the empty
\* sequence when the body has no 'results'.
C9_ResultShape ==
    GetSucceeded(last) =>
        /\ last.outcome = "return"
        /\ last.value =
             IF ~IsNone(last.req.resource_id) THEN last.net.body
             ELSE IF "results" \in last.net.body.keys THEN Arr(last.net.body.results)
             ELSE Arr(<<>>)

\* C10: a call issues exactly one GET when its parameters are valid and the
\* cache is missed or bypassed, and none otherwise; a failed GET is not
\* repeated.
C10_AtMostOneGet ==
    [][Called =>
        Len(last'.urls) =
            IF ValidParams(last'.req)
               /\ ~(last'.req.use_cache /\ KeyOf(last'.req) \in DOMAIN _cache)
            THEN 1 ELSE 0]_vars

\* A call whose single GET failed raised at once.
C10_Witness ==
    /\ last.outcome = "raise" /\ last.exc = "SWAPIError"
    /\ Len(last.urls) = 1
    /\ last.net.status = 500

\* C12: the cache is empty at first, and no call removes an entry or changes
\* the value under a key the cache already holds.
C12_CacheOnlyGrows ==
    /\ DOMAIN _cache = {}
    /\ [][\A k \in DOMAIN _cache : k \in DOMAIN _cache' /\ _cache'[k] = _cache[k]]_vars

\* A call that bypassed the cache fetched, for a key the cache holds, a
\* value other than the cached one, and the entry is as it was.
C12_Witness ==
    /\ ~last.req.use_cache
    /\ last.outcome = "return"
    /\ KeyOf(last.req) \in DOMAIN _cache
    /\ _cache[KeyOf(last.req)] # last.value

\* C28: a call that raises ValueError or SWAPIError leaves _cache as it was.
C28_FailureLeavesCache ==
    [][(Called /\ last'.outcome = "raise" /\ last'.exc \in {"ValueError", "SWAPIError"})
          => _cache' = _cache]_vars

\* A call with use_cache = True failed with SWAPIError after its GET, against
\* a cache that held an entry, and the cache holds just that entry.
C28_Witness ==
    /\ last.outcome = "raise" /\ last.exc = "SWAPIError"
    /\ last.req.use_cache
    /\ Len(last.urls) = 1
    /\ Cardinality(DOMAIN _cache) = 1
    /\ KeyOf(last.req) \notin DOMAIN _cache

\* C29: a call with use_cache = False leaves _cache as it was, whether it
\* returns or raises, and ends as the same call does against the empty
\* cache: same GETs, same value or error.
C29_BypassIgnoresCache ==
    [][(Called /\ ~last'.req.use_cache) =>
          /\ _cache' = _cache
          /\ ~last'.hit
          /\ LET alone == Fetch(last'.req, last'.net, [k \in {} |-> Null]).call
             IN  SameResult(last', alone) /\ last'.urls = alone.urls]_vars

\* A call with use_cache = False issued its GET and returned what the GET
\* gave, although the cache holds another value under its key.
C29_Witness ==
    /\ ~last.req.use_cache /\ ~last.hit
    /\ Len(last.urls) = 1
    /\ last.outcome = "return"
    /\ KeyOf(last.req) \in DOMAIN _cache
    /\ last.value # _cache[KeyOf(last.req)]
    /\ last.value.type = "array"

\* C30: when several preconditions are violated the ValueError names the
\* first of: resource_id not positive, page not positive, resource_id
\* together with search.
C30_ValidationPrecedence ==
    LET idBad == ~IsNone(last.req.resource_id) /\ Val(last.req.resource_id) <= 0
        pageBad == ~IsNone(last.req.page) /\ Val(last.req.page) <= 0
        both == ~IsNone(last.req.resource_id) /\ ~IsNone(last.req.search)
    IN  (last.outcome # "none" /\ ((idBad /\ pageBad) \/ (idBad /\ both) \/ (pageBad /\ both))) =>
            /\ last.outcome = "raise" /\ last.exc = "ValueError"
            /\ last.msg = IF idBad THEN "resource_id must be positive"
                          ELSE IF pageBad THEN "page must be positive"
                          ELSE "Cannot specify both resource_id and search"

\* A call violating all three preconditions was rejected for its resource_id.
C30_Witness ==
    /\ last.req.resource_id = Some(0)
    /\ last.req.page = Some(0)
    /\ ~IsNone(last.req.search)
    /\ last.exc = "ValueError" /\ last.msg = "resource_id must be positive"

(***************************************************************************)
(* resolve_urls: every call is made twice from the same _cache against     *)
(* the same answer of the network, once with resolve_urls = True (last,   *)
(* whose cache the run continues from) and once with resolve_urls = False  *)
(* (twin).                                                                 *)
(***************************************************************************)
WithResolve(req, flag) == [req EXCEPT !.resolve_urls = flag]

\* The calls made in pairs: every resource_id and search of Requests, the
\* first page or none.
ResolveRequests == {r \in Requests : IsNone(r.page) \/ Val(r.page) = 1}

get_swapi_data_resolve(req, net) ==
    /\ ncalls < MaxCalls
    /\ LET r1 == Fetch(WithResolve(req, TRUE), net, _cache)
           r2 == Fetch(WithResolve(req, FALSE), net, _cache)
       IN  /\ last' = r1.call
           /\ _cache' = r1.cache
           /\ twin' = [call |-> r2.call, cache |-> r2.cache]
    /\ prev' = Summary(last, req)
    /\ ncalls' = ncalls + 1
    /\ UNCHANGED <<probe, discover_vars, extra_vars>>

ResolveNext ==
    \E req \in ResolveRequests :
        \E i \in Answers(Prepare(WithResolve(req, TRUE), _cache))
                  \cup Answers(Prepare(WithResolve(req, FALSE), _cache)) :
            get_swapi_data_resolve(req, Answer(i))

SpecResolve == Init /\ [][ResolveNext]_vars

\* C13: two calls from the same cache against the same network that differ
\* only in resolve_urls issue the same GETs, end with the same result or
\* error, and leave the same cache.
C13_ResolveUrlsNoEffect ==
    /\ twin.call.urls = last.urls
    /\ twin.call.hit = last.hit
    /\ SameResult(twin.call, last)
    /\ twin.cache = _cache

\* Both calls were made, each fetched and stored a result, and a second pair
\* of calls was answered from the cache.
C13_Witness ==
    /\ ncalls = 2
    /\ last.req.resolve_urls /\ ~twin.call.req.resolve_urls
    /\ SameParams(last.req, twin.call.req)
    /\ last.hit /\ twin.call.hit
    /\ last.value.type = "array" /\ Len(last.value.items) > 0

(***************************************************************************)
(* _build_cache_key and _build_url as pure functions: two requests that    *)
(* meet the documented preconditions (resource_id and page positive when   *)
(* set, search a non-empty text when set, never resource_id with search)   *)
(* are drawn, then the key and the URL of each are built.                  *)
(***************************************************************************)
KeyKinds == {SWAPIResource[1], SWAPIResource[2]}
KeySearchTerms == {"Luke", "Luke|page:1"}

KeyRequests ==
    {r \in [resource_type : KeyKinds,
            resource_id : {None} \cup {Some(i) : i \in 1..(MaxId + 1)},
            search : {None} \cup {Some(t) : t \in KeySearchTerms},
            page : {None} \cup {Some(i) : i \in 1..(MaxPage + 1)},
            resolve_urls : {FALSE},
            use_cache : {TRUE}] :
        IsNone(r.resource_id) \/ IsNone(r.search)}

KeyInit ==
    /\ SwapiInit
    /\ twin = NoTwin
    /\ DiscoverIdle
    /\ ExtraIdle
    /\ \E a \in KeyRequests, b \in KeyRequests :
          probe = [NoProbe EXCEPT !.state = "drawn", !.a = a, !.b = b]

\* Lines 108-109 and 116 of get_swapi_data, for each of the two requests.
BuildKeyAndUrl ==
    /\ probe.state = "drawn"
    /\ probe' = [probe EXCEPT
          !.state = "built",
          !.key_a = _build_cache_key(probe.a.resource_type, probe.a.resource_id,
                                     probe.a.search, probe.a.page),
          !.key_b = _build_cache_key(probe.b.resource_type, probe.b.resource_id,
                                     probe.b.search, probe.b.page),
          !.url_a = _build_url(probe.a.resource_type, probe.a.resource_id,
                               probe.a.search, probe.a.page),
          !.url_b = _build_url(probe.b.resource_type, probe.b.resource_id,
                               probe.b.search, probe.b.page)]
    /\ UNCHANGED <<swapi_vars, twin, discover_vars, extra_vars>>

KeyNext == BuildKeyAndUrl

SpecKey == KeyInit /\ [][KeyNext]_vars

\* C11: two valid requests that differ in kind, id, search or page have
\* different cache keys.
C11_KeysDistinct ==
    (probe.state = "built" /\ ~SameParams(probe.a, probe.b)) => probe.key_a # probe.key_b

\* C14: the URL is base/kind/id/ when the id is set, and otherwise base/kind/
\* followed by '?' and the present parameters among search=.. then page=..,
\* joined by '&'; nothing follows base/kind/ when neither is present.
C14_Target(r) ==
    LET root == "https://swapi.dev/api/" \o r.resource_type \o "/"
        s == "search=" \o Val(r.search)
        p == "page=" \o ToString(Val(r.page))
    IN  IF ~IsNone(r.resource_id) THEN root \o ToString(Val(r.resource_id)) \o "/"
        ELSE IF ~IsNone(r.search) /\ ~IsNone(r.page) THEN root \o "?" \o s \o "&" \o p
        ELSE IF ~IsNone(r.search) THEN root \o "?" \o s
        ELSE IF ~IsNone(r.page) THEN root \o "?" \o p
        ELSE root

SSDP_MULTICAST_GROUP == "239.255.255.250"
SSDP_PORT == 1900
SSDP_TIMEOUT == 5

\* Number of calls of recvfrom in one run of the model.
MaxReads == 3

MARKER == <<"roku:ecp">>
INVALID == "0xFF"
message == <<"M-SEARCH * HTTP/1.1", "HOST: 239.255.255.250:1900", "MAN: ssdp:discover",
             "MX: 1", "ST: ", "roku:ecp">>

Senders == {"192.168.1.100", "192.168.1.101"}
Payloads ==
    {<<"HTTP/1.1 200 OK", "ST: ", "roku:ecp">>,
     <<"HTTP/1.1 200 OK", "ST: ", "upnp:rootdevice">>,
     <<"NOTIFY * HTTP/1.1", INVALID>>}
Datagrams == [kind : {"datagram"}, addr : Senders, data : Payloads]
Timeout == [kind |-> "timeout", addr |-> "", data |-> <<>>]
RecvError == [kind |-> "error", addr |-> "", data |-> <<>>]

\* data.decode('utf-8')
decode(data) ==
    IF \E i \in 1..Len(data) : data[i] = INVALID
    THEN [exc |-> "UnicodeDecodeError", text |-> <<>>]
    ELSE [exc |-> "", text |-> data]

\* "sub in text" for texts given as sequences of pieces
Contains(text, sub) ==
    \E i \in 0..(Len(text) - Len(sub)) : \A j \in 1..Len(sub) : text[i + j] = sub[j]

\* "x in ip_addresses"
InList(x, list) == \E i \in 1..Len(list) : list[i] = x

\* The statement that follows `stmt` when it completes: lines 28, 29, 32, 36, 42.
After_SendFirst(stmt) ==
    CASE stmt = "socket" -> "sendto"
      [] stmt = "sendto" -> "settimeout"
      [] stmt = "settimeout" -> "setsockopt"
      [] stmt = "setsockopt" -> "recvfrom"
After(stmt) ==
    CASE stmt = "socket" -> "settimeout"
      [] stmt = "settimeout" -> "setsockopt"
      [] stmt = "setsockopt" -> "sendto"
      [] stmt = "sendto" -> "recvfrom"

\* "while True:": where the loop goes after a datagram has been handled.
WhileTrue_UntilFound(addresses) == IF Len(addresses) > 0 THEN "return" ELSE "recvfrom"
WhileTrue(addresses) == "recvfrom"

\* "except socket.timeout: pass": where the run goes when recvfrom times out.
ExceptTimeout_Retry(addresses) == "recvfrom"
ExceptTimeout(addresses) == "return"

\* The run has an exception in flight, or a value to return, while the
\* finally block runs; then it has raised or returned.
Raising_Swallowed(exc) == [how |-> "returning", exc |-> "", value |-> <<>>]
Raising(exc) == [how |-> "raising", exc |-> exc, value |-> <<>>]
Returning(value) == [how |-> "returning", exc |-> "", value |-> value]
Propagated(exc) == [how |-> "raised", exc |-> exc, value |-> <<>>]

\* Line 28: sock = socket.socket(...)
socket_socket ==
    /\ pc = "idle"
    /\ \/ /\ sock' = [NoSocket EXCEPT !.state = "open"]
          /\ pc' = After("socket")
          /\ UNCHANGED ended
       \/ /\ ended' = Propagated("OSError")
          /\ pc' = "done"
          /\ UNCHANGED sock
    /\ UNCHANGED <<ip_addresses, received, swapi_vars, pure_vars, extra_vars>>

\* Line 29: sock.settimeout(SSDP_TIMEOUT), before the try block.
settimeout ==
    /\ pc = "settimeout"
    /\ \/ /\ sock' = [sock EXCEPT !.timeout = Some(SSDP_TIMEOUT)]
          /\ pc' = After("settimeout")
          /\ UNCHANGED ended
       \/ /\ ended' = Propagated("OSError")
          /\ pc' = "done"
          /\ UNCHANGED sock
    /\ UNCHANGED <<ip_addresses, received, swapi_vars, pure_vars, extra_vars>>

\* Line 32: sock.setsockopt(SOL_SOCKET, SO_REUSEADDR, 1), before the try block.
setsockopt ==
    /\ pc = "setsockopt"
    /\ \/ /\ sock' = [sock EXCEPT !.reuseaddr = TRUE]
          /\ pc' = After("setsockopt")
          /\ UNCHANGED ended
       \/ /\ ended' = Propagated("OSError")
          /\ pc' = "done"
          /\ UNCHANGED sock
    /\ UNCHANGED <<ip_addresses, received, swapi_vars, pure_vars, extra_vars>>

\* Lines 36-39: sock.sendto(message, (group, port)); ip_addresses = []
sendto ==
    /\ pc = "sendto"
    /\ \/ /\ sock' = [sock EXCEPT !.sent = Append(@, [data |-> message,
                                      to |-> <<SSDP_MULTICAST_GROUP, SSDP_PORT>>])]
          /\ ip_addresses' = <<>>
          /\ pc' = After("sendto")
          /\ UNCHANGED ended
       \/ /\ ended' = Raising("OSError")
          /\ pc' = "finally"
          /\ UNCHANGED <<sock, ip_addresses>>
    /\ UNCHANGED <<received, swapi_vars, pure_vars, extra_vars>>

\* Lines 42-45: recvfrom returns the datagram d; decode, test, append.
recvfrom_datagram(d) ==
    /\ pc = "recvfrom"
    /\ Len(received) < MaxReads
    /\ received' = Append(received, d)
    /\ LET response == decode(d.data)
       IN  IF response.exc # ""
           THEN /\ ended' = Raising(response.exc)
                /\ pc' = "finally"
                /\ UNCHANGED ip_addresses
           ELSE /\ ip_addresses' =
                     IF Contains(response.text, MARKER) /\ ~InList(d.addr, ip_addresses)
                     THEN Append(ip_addresses, d.addr)
                     ELSE ip_addresses
                /\ pc' = WhileTrue(ip_addresses')
                /\ UNCHANGED ended
    /\ UNCHANGED <<sock, swapi_vars, pure_vars, extra_vars>>

\* Lines 42, 46-47: recvfrom raises socket.timeout.
recvfrom_timeout ==
    /\ pc = "recvfrom"
    /\ Len(received) < MaxReads
    /\ received' = Append(received, Timeout)
    /\ pc' = ExceptTimeout(ip_addresses)
    /\ UNCHANGED <<sock, ip_addresses, ended, swapi_vars, pure_vars, extra_vars>>

\* Line 42: recvfrom raises another exception.
recvfrom_error ==
    /\ pc = "recvfrom"
    /\ Len(received) < MaxReads
    /\ received' = Append(received, RecvError)
    /\ ended' = Raising("OSError")
    /\ pc' = "finally"
    /\ UNCHANGED <<sock, ip_addresses, swapi_vars, pure_vars, extra_vars>>

\* Line 49: return ip_addresses
return ==
    /\ pc = "return"
    /\ ended' = Returning(ip_addresses)
    /\ pc' = "finally"
    /\ UNCHANGED <<sock, ip_addresses, received, swapi_vars, pure_vars, extra_vars>>

\* Lines 50-51: finally: sock.close(); then the return or the exception
\* in flight completes.
finally ==
    /\ pc = "finally"
    /\ sock' = [sock EXCEPT !.state = "closed"]
    /\ ended' = [ended EXCEPT !.how = IF @ = "returning" THEN "returned" ELSE "raised"]
    /\ pc' = "done"
    /\ UNCHANGED <<ip_addresses, received, swapi_vars, pure_vars, extra_vars>>

DiscoverNext ==
    \/ socket_socket
    \/ settimeout
    \/ setsockopt
    \/ sendto
    \/ \E d \in Datagrams : recvfrom_datagram(d)
    \/ recvfrom_timeout
    \/ recvfrom_error
    \/ return
    \/ finally

SpecDiscover == Init /\ [][DiscoverNext]_vars

\* The statements that wait for nothing outside the program run when they
\* can; recvfrom waits for the network.
SpecDiscoverFair ==
    SpecDiscover /\ WF_vars(settimeout \/ setsockopt \/ sendto \/ return \/ finally)

DiscoverTypeOK ==
    /\ pc \in {"idle", "settimeout", "setsockopt", "sendto", "recvfrom", "return",
               "finally", "done"}
    /\ sock.state \in {"none", "open", "closed"}
    /\ Len(received) <= MaxReads
    /\ ended.how \in {"running", "returning", "raising", "returned", "raised"}

(***************************************************************************)
(* Vocabulary of the properties of discover_roku_devices.                  *)
(***************************************************************************)
TimedOut == \E i \in 1..Len(received) : received[i].kind = "timeout"
ReadFailed == \E i \in 1..Len(received) : received[i].kind = "error"
RunReturned == pc = "done" /\ ended.how = "returned"
RunRaised == pc = "done" /\ ended.how = "raised"
RequestSent == Len(sock.sent) = 1

\* The senders of the datagrams of log[1..n] that carry the marker, each
\* once, in the order of their first such datagram.
RECURSIVE MatchingSenders(_, _)
MatchingSenders(log, n) ==
    IF n = 0 THEN <<>>
    ELSE LET before == MatchingSenders(log, n - 1)
             d == log[n]
         IN  IF /\ d.kind = "datagram"
                /\ \E i \in 1..Len(d.data) : d.data[i] = "roku:ecp"
                /\ \A i \in 1..Len(before) : before[i] # d.addr
             THEN Append(before, d.addr)
             ELSE before

\* C15: a run whose request was sent and whose reads did not fail returns
\* the senders of the datagrams carrying 'roku:ecp' received before the
\* read timeout, each once in first-seen order: the empty list when there
\* are none, and not an error.
C15_ReturnsMatchingSenders ==
    (pc = "done" /\ RequestSent /\ ~ReadFailed) =>
        /\ ended.how = "returned"
        /\ ended.value = MatchingSenders(received, Len(received))

\* C16: once the socket exists, a run that has ended, by return or by an
\* exception, has closed it.
C16_SocketClosedOnExit ==
    (pc = "done" /\ sock.state # "none") => sock.state = "closed"

\* C17: a datagram that is not UTF-8 or lacks the marker never makes the
\* run fail: the run goes on to the next read.
C17_BadPayloadIgnored ==
    [][\A d \in Datagrams :
          (recvfrom_datagram(d) /\ (decode(d.data).exc # "" \/ ~Contains(d.data, MARKER)))
              => (pc' = "recvfrom" /\ ended' = NotEnded /\ ip_addresses' = ip_addresses)]_vars

\* C18: the loop is left for the return statement only by a read that times
\* out; a datagram that decodes, with or without the marker, from a new
\* sender or a known one, leaves the run in the loop, however many came
\* before it.
C18_LoopEndsOnlyOnTimeout ==
    [][/\ pc' = "return" => recvfrom_timeout
       /\ \A d \in Datagrams :
             (recvfrom_datagram(d) /\ decode(d.data).exc = "") => pc' = "recvfrom"]_vars

\* The loop is still reading after a matching reply, a reply without the
\* marker and a second reply of the first sender.
C18_Witness ==
    /\ pc = "recvfrom"
    /\ Len(received) = 3
    /\ Contains(received[1].data, MARKER)
    /\ received[2].kind = "datagram" /\ ~Contains(received[2].data, MARKER)
    /\ received[3] = received[1]
    /\ Len(ip_addresses) = 1

\* C19: once a read has timed out the run goes on to return, and a run that
\* returned had a read that timed out: while every read yields a reply the
\* run does not return.
C19_ReturnsIffTimeout ==
    /\ TimedOut ~> RunReturned
    /\ [](RunReturned => TimedOut)

\* Two replies, then a timeout, and the run returned both senders.
C19_Witness ==
    /\ RunReturned
    /\ Len(received) = 3 /\ received[3] = Timeout
    /\ Len(ended.value) = 2

\* C20: the request is sent at most once, and exactly once in a run that
\* returns; when it is sent the timeout and SO_REUSEADDR are set and nothing
\* has been read; every read comes after it.
C20_SentOnceConfiguredFirst ==
    /\ [](Len(sock.sent) <= 1)
    /\ [](RunReturned => RequestSent)
    /\ [][sock'.sent # sock.sent =>
            /\ sock.timeout = Some(SSDP_TIMEOUT)
            /\ sock.reuseaddr
            /\ received = <<>>]_vars
    /\ [][received' # received => RequestSent]_vars

\* The request went to the multicast group once and replies were read after it.
C20_Witness ==
    /\ RunReturned
    /\ RequestSent
    /\ sock.sent[1].to = <<SSDP_MULTICAST_GROUP, SSDP_PORT>>
    /\ Len(received) = 2
    /\ Len(ended.value) = 1

\* sendto was reached and raised.
SendFailed == pc \in {"finally", "done"} /\ sock.reuseaddr /\ sock.sent = <<>>

\* C21: when sendto raises, or recvfrom raises something other than
\* socket.timeout, the run ends by raising that same exception: it returns
\* nothing, not even the addresses collected so far.
C21_SendReadErrorsPropagate ==
    (pc = "done" /\ (SendFailed \/ ReadFailed)) =>
        /\ ended.how = "raised"
        /\ ended.exc = "OSError"
        /\ ended.value = <<>>

\* A read failed after an address had been collected, and the run raised.
C21_Witness ==
    /\ pc = "done"
    /\ ReadFailed
    /\ Len(ip_addresses) = 1
    /\ ended = Propagated("OSError")
    /\ sock.state = "closed"

(***************************************************************************)
(* The weather pipeline of src/weather.py: main calls get_zipcode, which   *)
(* calls get_public_ip, and then get_temp_based_on_ip.  Each requests.get  *)
(* is answered by an exception of requests, or by a status and a body      *)
(* whose json() gives a dict, gives a list, or raises.                     *)
(*                                                                         *)
(* A dict is a function from its keys to their values; a value is a text,  *)
(* "{..}" standing for a nested dict that has the fields read from it.     *)
(***************************************************************************)
IP_URL == "ip_url"
ZIP_URL == "zipcode_url"
WEATHER_URL == "weather_url"

NoFields == [k \in {} |-> ""]
Field(k, v) == [x \in {k} |-> v]
Fields2(k1, v1, k2, v2) == [x \in {k1, k2} |-> IF x = k1 THEN v1 ELSE v2]
JsonDict(fields) == [type |-> "dict", fields |-> fields]
JsonList == [type |-> "list", fields |-> NoFields]

WAnswer(raised, status, json_raises, body) ==
    [raised |-> raised, status |-> status, json_raises |-> json_raises, body |-> body]
WFailures ==
    {WAnswer("ConnectionError", 0, "", JsonList),
     WAnswer("Timeout", 0, "", JsonList),
     WAnswer("", 500, "", JsonList),
     WAnswer("", 200, "JSONDecodeError", JsonList),
     WAnswer("", 200, "ValueError", JsonList),
     WAnswer("", 200, "", JsonList),
     WAnswer("", 200, "", JsonDict(NoFields))}
WOk(fields) == WAnswer("", 200, "", JsonDict(fields))

PublicIps == {"203.0.113.7", "198.51.100.2", "192.0.2.44"}
ZipCodes == {"10001", "94103", "60601"}
IpAnswers ==
    WFailures \cup {WOk(Field("ip", ip)) : ip \in PublicIps \cup {""}}
ZipAnswers ==
    WFailures
    \cup {WOk(Fields2("status", "success", "zip", z)) : z \in ZipCodes \cup {""}}
    \cup {WOk(Fields2("status", "fail", "message", "invalid query")),
          WOk(Field("status", "success"))}
TempAnswers ==
    WFailures
    \cup {WOk(Fields2("location", "{..}", "current", "{..}")),
          WOk(Field("location", "{..}")),
          WOk(Fields2("location", "New York", "current", "{..}")),
          WOk(Field("error", "{..}")),
          WOk(Field("error", "quota exceeded"))}

\* The result of a function of weather.py: the Optional it returns, or the
\* exception that leaves it.
WReturn(value) == [exc |-> "", value |-> value]
WRaise(exc) == [exc |-> exc, value |-> None]

\* "except requests.exceptions.RequestException" and "except (KeyError,
\* TypeError)", both returning None; requests' own JSONDecodeError is a
\* RequestException, the ValueError of the json module is not.
WCaught(exc) ==
    exc \in {"RequestException", "ConnectionError", "Timeout", "JSONDecodeError",
             "KeyError", "TypeError"}
WHandle(exc) == IF WCaught(exc) THEN WReturn(None) ELSE WRaise(exc)

\* data.get(key) and data[key]
dict_get(data, key) ==
    IF data.type # "dict" THEN WRaise("AttributeError")
    ELSE IF key \in DOMAIN data.fields THEN WReturn(Some(data.fields[key]))
    ELSE WReturn(None)
dict_item(data, key) ==
    IF data.type # "dict" THEN WRaise("TypeError")
    ELSE IF key \in DOMAIN data.fields THEN WReturn(Some(data.fields[key]))
    ELSE WRaise("KeyError")

\* "if not public_ip:", "if not ip:", "if not zipcode:"
NoValue_OnlyNone(o) == IsNone(o)
NoValue(o) == ~TruthyStr(o)

\* get_public_ip(), lines 113-130, when its GET is answered by ans.
get_public_ip(ans) ==
    IF ans.raised # "" THEN WHandle(ans.raised)
    ELSE IF ans.status # 200 THEN WReturn(None)
    ELSE IF ans.json_raises # "" THEN WHandle(ans.json_raises)
    ELSE LET ip == dict_get(ans.body, "ip")
         IN  IF ip.exc # "" THEN WHandle(ip.exc)
             ELSE IF NoValue(ip.value) THEN WReturn(None)
             ELSE WReturn(ip.value)

\* get_zipcode() from line 74 on, when its GET is answered by ans.
get_zipcode(ans) ==
    IF ans.raised # "" THEN WHandle(ans.raised)
    ELSE IF ans.status # 200 THEN WReturn(None)
    ELSE IF ans.json_raises # "" THEN WHandle(ans.json_raises)
    ELSE LET status == dict_get(ans.body, "status")
             zipcode == dict_get(ans.body, "zip")
         IN  IF status.exc # "" THEN WHandle(status.exc)
             ELSE IF status.value = Some("fail") THEN WReturn(None)
             ELSE IF NoValue(zipcode.value) THEN WReturn(None)
             ELSE WReturn(zipcode.value)

\* get_temp_based_on_ip(zip_code), lines 34-57, when its GET is answered by ans.
get_temp_based_on_ip(ans) ==
    IF ans.raised # "" THEN WHandle(ans.raised)
    ELSE IF ans.status # 200 THEN WReturn(None)
    ELSE IF ans.json_raises # "" THEN WHandle(ans.json_raises)
    ELSE LET error == dict_get(ans.body, "error")
             location == dict_item(ans.body, "location")
             current == dict_item(ans.body, "current")
         IN  IF ans.body.type = "dict" /\ ~IsNone(error.value)
             THEN IF Val(error.value) = "{..}" THEN WReturn(None) ELSE WHandle("AttributeError")
             ELSE IF location.exc # "" THEN WHandle(location.exc)
             ELSE IF Val(location.value) # "{..}" THEN WHandle("TypeError")
             ELSE IF current.exc # "" THEN WHandle(current.exc)
             ELSE IF Val(current.value) # "{..}" THEN WHandle("TypeError")
             ELSE WReturn(Some("api_response"))

Get(stage, url) == [stage |-> stage, url |-> url]
WOthers == <<swapi_vars, pure_vars, discover_vars, github, alias_vars, origin, thread_vars>>

\* main, line 137, and get_zipcode, lines 70-72: get_public_ip is called; an
\* exception that leaves it leaves get_zipcode too and is caught by main.
main_get_public_ip ==
    /\ weather.pc = "idle"
    /\ \E ans \in IpAnswers :
          LET r == get_public_ip(ans)
          IN  weather' = [weather EXCEPT
                  !.gets = <<Get("ip", IP_URL)>>,
                  !.answers = <<ans>>,
                  !.public_ip = r.value,
                  !.exc = r.exc,
                  !.pc = IF r.exc # "" \/ NoValue(r.value) THEN "done" ELSE "zip"]
    /\ UNCHANGED WOthers

\* get_zipcode, lines 74-100, and main, line 138.
main_get_zipcode ==
    /\ weather.pc = "zip"
    /\ \E ans \in ZipAnswers :
          LET r == get_zipcode(ans)
          IN  weather' = [weather EXCEPT
                  !.gets = Append(@, Get("zip", ZIP_URL \o "/" \o Val(weather.public_ip))),
                  !.answers = Append(@, ans),
                  !.zipcode = r.value,
                  !.exc = r.exc,
                  !.pc = IF r.exc # "" \/ NoValue(r.value) THEN "done" ELSE "temp"]
    /\ UNCHANGED WOthers

\* main, line 139: get_temp_based_on_ip(zipcode).
main_get_temp ==
    /\ weather.pc = "temp"
    /\ \E ans \in TempAnswers :
          LET r == get_temp_based_on_ip(ans)
          IN  weather' = [weather EXCEPT
                  !.gets = Append(@, Get("weather", WEATHER_URL \o "/current?query="
                                                      \o Val(weather.zipcode))),
                  !.answers = Append(@, ans),
                  !.exc = r.exc,
                  !.pc = "done"]
    /\ UNCHANGED WOthers

WeatherNext ==
    \/ main_get_public_ip
    \/ main_get_zipcode
    \/ main_get_temp

SpecWeather == Init /\ [][WeatherNext]_vars

\* C22: the requests go out in the order public IP, zip code, temperature;
\* the zip-code request only once a non-empty public IP was obtained, the
\* temperature request only once a non-empty zip code was obtained, and
\* none after a stage that yielded nothing.
C22_StagesInOrder ==
    /\ \A i \in 1..Len(weather.gets) : weather.gets[i].stage = <<"ip", "zip", "weather">>[i]
    /\ Len(weather.gets) >= 2 => (~IsNone(weather.public_ip) /\ Val(weather.public_ip) # "")
    /\ Len(weather.gets) >= 3 => (~IsNone(weather.zipcode) /\ Val(weather.zipcode) # "")
    /\ (weather.pc = "done" /\ Len(weather.gets) = 1) =>
           (weather.exc # "" \/ IsNone(weather.public_ip) \/ Val(weather.public_ip) = "")
    /\ (weather.pc = "done" /\ Len(weather.gets) = 2) =>
           (weather.exc # "" \/ IsNone(weather.zipcode) \/ Val(weather.zipcode) = "")

\* All three requests were made, each for what the stage before obtained.
C22_Witness ==
    /\ weather.pc = "done"
    /\ Len(weather.gets) = 3
    /\ weather.gets[2].url = "zipcode_url/203.0.113.7"
    /\ weather.gets[3].url = "weather_url/current?query=10001"

\* The GET of get_public_ip failed to retrieve an address.
IpRetrievalFailed ==
    /\ Len(weather.answers) >= 1
    /\ LET ans == weather.answers[1]
       IN  \/ ans.raised # ""
           \/ ans.status # 200
           \/ ans.json_raises # ""
           \/ ans.body.type # "dict"
           \/ "ip" \notin DOMAIN ans.body.fields

\* C23: get_public_ip returns None and raises nothing when the retrieval
\* fails: status other than 200, network error, no 'ip' in the response,
\* body that is not JSON.
C23_PublicIpNoneOnFailure ==
    (IpRetrievalFailed /\ Len(weather.gets) = 1) =>
        (weather.exc = "" /\ IsNone(weather.public_ip))

(***************************************************************************)
(* create_github_repo of src/github/create_repo.py: Github(token),         *)
(* g.get_user(), user.create_repo(..), each of which returns or raises an  *)
(* Exception with some text; the prints are taken to succeed.              *)
(***************************************************************************)
RepoNames == {"test-repo", "private-repo", "existing-repo"}
Descriptions == {"A test repository", ""}
ExceptionTexts == {"Bad credentials", "Repository already exists", "Network error", ""}
GOthers == <<swapi_vars, pure_vars, discover_vars, weather, alias_vars, origin, thread_vars>>

\* Line 19: error_message = f"An error occurred: {e}"
error_message_NoText(e) == "An error occurred"
error_message(e) == "An error occurred: " \o e

\* Lines 18-21: except Exception as e: ... return None, error_message
ExceptException_Reraise(g, e) ==
    [g EXCEPT !.pc = "done", !.raised = Some(e), !.escaped = Some(e)]
ExceptException(g, e) ==
    [g EXCEPT !.pc = "done", !.raised = Some(e), !.repo = None,
              !.error = Some(error_message(e))]

\* The call create_github_repo(repo_name, description, is_private, github_token).
create_github_repo(repo_name, description, is_private) ==
    /\ github.pc = "idle"
    /\ github' = [github EXCEPT !.pc = "Github", !.repo_name = repo_name,
                                !.description = description, !.is_private = is_private]
    /\ UNCHANGED GOthers

\* Line 12: g = Github(github_token)
Github ==
    /\ github.pc = "Github"
    /\ \/ github' = [github EXCEPT !.pc = "get_user", !.calls = Append(@, "Github")]
       \/ \E e \in ExceptionTexts :
             github' = ExceptException([github EXCEPT !.calls = Append(@, "Github")], e)
    /\ UNCHANGED GOthers

\* Line 13: user = g.get_user()
get_user ==
    /\ github.pc = "get_user"
    /\ \/ github' = [github EXCEPT !.pc = "create_repo", !.calls = Append(@, "get_user")]
       \/ \E e \in ExceptionTexts :
             github' = ExceptException([github EXCEPT !.calls = Append(@, "get_user")], e)
    /\ UNCHANGED GOthers

\* Lines 14-16: repo = user.create_repo(..); print; return repo, None
create_repo ==
    /\ github.pc = "create_repo"
    /\ \/ github' = [github EXCEPT
              !.pc = "done", !.calls = Append(@, "create_repo"),
              !.repo = Some("https://github.com/testuser/" \o github.repo_name),
              !.error = None]
       \/ \E e \in ExceptionTexts :
             github' = ExceptException([github EXCEPT !.calls = Append(@, "create_repo")], e)
    /\ UNCHANGED GOthers

GithubNext ==
    \/ \E n \in RepoNames, d \in Descriptions, p \in BOOLEAN : create_github_repo(n, d, p)
    \/ Github
    \/ get_user
    \/ create_repo

SpecGithub == Init /\ [][GithubNext]_vars

\* C24: a call that has ended raised nothing and returned (repo, None) when
\* the three calls succeeded, and (None, message) with the text of the
\* exception in the message when one of them raised.
C24_RepoXorError ==
    github.pc = "done" =>
        /\ IsNone(github.escaped)
        /\ IsNone(github.repo) # IsNone(github.error)
        /\ IsNone(github.raised) =>
              (github.calls = <<"Github", "get_user", "create_repo">> /\ ~IsNone(github.repo))
        /\ ~IsNone(github.raised) =>
              /\ IsNone(github.repo)
              /\ github.error = Some("An error occurred: " \o Val(github.raised))

\* create_repo raised 'Bad credentials' and the call returned the message.
C24_Witness ==
    /\ github.pc = "done"
    /\ github.calls = <<"Github", "get_user", "create_repo">>
    /\ github.raised = Some("Bad credentials")
    /\ github.error = Some("An error occurred: Bad credentials")
    /\ IsNone(github.repo)

(***************************************************************************)
(* Where cache entries come from: calls of get_swapi_data for the people   *)
(* collection, with the search texts of KeySearchTerms, recording for      *)
(* every entry written to _cache the URL of the GET that produced it.      *)
(***************************************************************************)
OriginRequests ==
    {r \in KeyRequests : r.resource_type = SWAPIResource[1] /\ IsNone(r.resource_id)}

\* The call wrote its result to _cache (lines 161-162).
Stored(call) == call.outcome = "return" /\ ~call.hit /\ call.req.use_cache

get_swapi_data_origin(req, pre, net) ==
    /\ ncalls < MaxCalls
    /\ LET r == Complete(req, pre, net, _cache)
       IN  /\ last' = r.call
           /\ _cache' = r.cache
           /\ origin' =
                IF Stored(r.call)
                THEN [k \in DOMAIN r.cache |->
                        IF k = pre.cache_key
                        THEN [url |-> pre.url, value |-> r.call.value]
                        ELSE origin[k]]
                ELSE origin
    /\ prev' = Summary(last, req)
    /\ ncalls' = ncalls + 1
    /\ UNCHANGED <<pure_vars, discover_vars, script_vars, alias_vars, thread_vars>>

OriginNext ==
    \E req \in OriginRequests :
        LET pre == Prepare(req, _cache)
        IN  \E i \in Answers(pre) : get_swapi_data_origin(req, pre, Answer(i))

SpecOrigin == Init /\ [][OriginNext]_vars

\* C27: a value returned from the cache was produced by a GET of the URL
\* that the request it answers would itself be sent to.
C27_CachedFromSameTarget ==
    last.hit =>
        origin[KeyOf(last.req)].url =
            _build_url(last.req.resource_type, last.req.resource_id,
                       last.req.search, last.req.page)

(***************************************************************************)
(* Object identity.  get_swapi_data returns the list or dict it has just   *)
(* stored ("_cache[cache_key] = result ... return result") and, on a hit,  *)
(* the stored object itself ("return _cache[cache_key]"); the caller may   *)
(* change an object it was handed.  heap[o] is the content of object o,    *)
(* refs[k] the object of the entry k, so that _cache[k] = heap[refs[k]].   *)
(***************************************************************************)
AliasRequests ==
    {r \in Requests : r.use_cache /\ ValidParams(r) /\ IsNone(r.page)}

\* What the caller does to a list (clear it, or append to an empty one) or
\* to a dict (set its 'name').
CallerEdit(value) ==
    IF value.type = "array"
    THEN IF value.items = <<>> THEN Arr(<<Leia>>) ELSE Arr(<<>>)
    ELSE [value EXCEPT !.name = IF @ = "Vader" THEN "Anakin" ELSE "Vader"]

get_swapi_data_alias(req, pre, net) ==
    /\ ncalls < MaxCalls
    /\ LET r == Complete(req, pre, net, _cache)
           new == Len(heap) + 1
       IN  /\ last' = r.call
           /\ _cache' = r.cache
           /\ IF r.call.outcome # "return"
              THEN UNCHANGED <<heap, refs, handed, origin>>
              ELSE IF r.call.hit
              THEN /\ handed' = handed \cup {refs[pre.cache_key]}
                   /\ UNCHANGED <<heap, refs, origin>>
              ELSE /\ heap' = Append(heap, r.call.value)
                   /\ handed' = handed \cup {new}
                   /\ refs' = IF Stored(r.call)
                              THEN [k \in DOMAIN r.cache |->
                                      IF k = pre.cache_key THEN new ELSE refs[k]]
                              ELSE refs
                   /\ origin' = IF Stored(r.call)
                                THEN [k \in DOMAIN r.cache |->
                                        IF k = pre.cache_key
                                        THEN [url |-> pre.url, value |-> r.call.value]
                                        ELSE origin[k]]
                                ELSE origin
    /\ prev' = Summary(last, req)
    /\ ncalls' = ncalls + 1
    /\ UNCHANGED <<pure_vars, discover_vars, script_vars, thread_vars>>

\* The caller changes, in place, an object a call returned to it, and lets
\* go of it.
caller_edits(o) ==
    /\ o \in handed
    /\ heap' = [heap EXCEPT ![o] = CallerEdit(@)]
    /\ _cache' = [k \in DOMAIN _cache |-> IF refs[k] = o THEN CallerEdit(heap[o]) ELSE _cache[k]]
    /\ handed' = handed \ {o}
    /\ UNCHANGED <<last, prev, ncalls, refs, origin, pure_vars, discover_vars, script_vars,
                   thread_vars>>

AliasNext ==
    \/ \E req \in AliasRequests :
          LET pre == Prepare(req, _cache)
          IN  \E i \in Answers(pre) : get_swapi_data_alias(req, pre, Answer(i))
    \/ \E o \in handed : caller_edits(o)

SpecAlias == Init /\ [][AliasNext]_vars

AliasTypeOK ==
    /\ DOMAIN refs = DOMAIN _cache
    /\ \A k \in DOMAIN _cache : _cache[k] = heap[refs[k]]
    /\ handed \subseteq 1..Len(heap)

\* C25: a value returned from the cache equals the value the GET that
\* filled the entry produced, whatever the caller did in between to the
\* values earlier calls returned to it.
C25_CacheHitReturnsSnapshot ==
    last.hit => last.value = origin[KeyOf(last.req)].value

(***************************************************************************)
(* Threads.  get_swapi_data takes no lock: calls made by several threads   *)
(* interleave at its three uses of shared or remote state, the cache       *)
(* check, the GET and the store.  threads[t] is the call of thread t (pc   *)
(* is the step it is at, call what it has done), stores the history of the *)
(* writes "_cache[cache_key] = result" in the order they happened.         *)
(***************************************************************************)
Threads == {"t1", "t2", "t3"}

ThreadRequests ==
    {r \in Requests : /\ r.use_cache /\ ~r.resolve_urls /\ ValidParams(r)
                      /\ r.resource_type = SWAPIResource[1]
                      /\ IsNone(r.resource_id) /\ IsNone(r.page)}

Running(t, step) == t \in DOMAIN threads /\ threads[t].pc = step

Thread(t, new) == [x \in DOMAIN threads \cup {t} |-> IF x = t THEN new ELSE threads[x]]

\* Thread t calls get_swapi_data(req): validation, cache key and
\* "if use_cache and cache_key in _cache: return _cache[cache_key]".
thread_check(t, req) ==
    /\ t \notin DOMAIN threads
    /\ LET pre == Prepare(req, _cache)
       IN  threads' = Thread(t, IF Requests_get(pre)
                                THEN [pc |-> "get", req |-> req, call |-> NoCall]
                                ELSE [pc |-> "done", req |-> req,
                                      call |-> Complete(req, pre, NoNet, _cache).call])
    /\ UNCHANGED <<swapi_vars, stores, pure_vars, discover_vars, script_vars, alias_vars,
                   origin>>

\* Thread t, past the cache check, issues its GET and processes the answer:
\* it raises or is left holding the result to store.
thread_get(t, net) ==
    /\ Running(t, "get")
    /\ LET req == threads[t].req
           none == [k \in {} |-> Null]
           call == Complete(req, Prepare(req, none), net, none).call
       IN  threads' = Thread(t, [pc |-> IF call.outcome = "return" THEN "store" ELSE "done",
                                 req |-> req, call |-> call])
    /\ UNCHANGED <<swapi_vars, stores, pure_vars, discover_vars, script_vars, alias_vars,
                   origin>>

\* Thread t executes "if use_cache: _cache[cache_key] = result" and returns.
thread_store(t) ==
    /\ Running(t, "store")
    /\ LET req == threads[t].req
           cache_key == _build_cache_key(req.resource_type, req.resource_id, req.search,
                                         req.page)
       IN  /\ _cache' = StoreResult(req.use_cache, cache_key, threads[t].call.value, _cache)
           /\ stores' = Append(stores, [key |-> cache_key, value |-> threads[t].call.value,
                                        by |-> t])
    /\ threads' = Thread(t, [threads[t] EXCEPT !.pc = "done"])
    /\ UNCHANGED <<last, prev, ncalls, pure_vars, discover_vars, script_vars, alias_vars,
                   origin>>

ThreadsNext ==
    \/ \E t \in Threads, req \in ThreadRequests : thread_check(t, req)
    \/ \E t \in Threads, i \in 1..Len(NetOutcomes) : thread_get(t, NetOutcomes[i])
    \/ \E t \in Threads : thread_store(t)

SpecThreads == Init /\ [][ThreadsNext]_vars

\* The positions of the writes to the entry k, in order.
StoresOf(k) == {i \in 1..Len(stores) : stores[i].key = k}

LastStore(k) == stores[CHOOSE i \in StoresOf(k) : \A j \in StoresOf(k) : j <= i]

\* A GET of this call succeeded for the entry k and gave `value`.
FetchedFor(call, k, value) ==
    /\ call.outcome = "return" /\ ~call.hit
    /\ KeyOf(call.req) = k
    /\ call.urls = <<_build_url(call.req.resource_type, call.req.resource_id,
                                call.req.search, call.req.page)>>
    /\ call.net.raised = "" /\ call.net.status = 200 /\ call.net.parses
    /\ call.value = value

\* C26: however the calls of the threads interleave, the cache holds one
\* value per key and only for keys that were stored, the value of an entry
\* is the one written by the store that happened last, and every value ever
\* stored is the result of a successful GET made for that key.
C26_LastWriterWins ==
    /\ DOMAIN _cache = {stores[i].key : i \in 1..Len(stores)}
    /\ \A k \in DOMAIN _cache :
          /\ StoresOf(k) # {}
          /\ _cache[k] = LastStore(k).value
    /\ \A i \in 1..Len(stores) :
          FetchedFor(threads[stores[i].by].call, stores[i].key, stores[i].value)

\* Two threads missed the same entry, both fetched, with different results,
\* and both stored; a third then hit the entry and got the later value.
C26_Witness ==
    \E k \in DOMAIN _cache :
       /\ Cardinality(StoresOf(k)) = 2
       /\ \E i, j \in StoresOf(k) :
             i < j /\ stores[i].value # stores[j].value /\ _cache[k] = stores[j].value
       /\ \E t \in DOMAIN threads :
             /\ threads[t].call.hit /\ KeyOf(threads[t].req) = k
             /\ threads[t].call.value = _cache[k]
====
